---- MODULE Spec2Model ----
(***************************************************************************)
(* crokey: parsing of key combinations (src/src/parse.rs), the key! macro  *)
(* as its unit tests pin it down (src/src/lib.rs), and the KeyEventFormat  *)
(* rendering of key events.                                                *)
(*                                                                         *)
(* A text is a sequence of characters.  An ASCII character is the string   *)
(* holding it; a non-ASCII character is the string naming its code point   *)
(* ("U+0D9E"), which len_utf8 maps to the length of its UTF-8 encoding.    *)
(***************************************************************************)
EXTENDS Integers, Sequences, FiniteSets, TLC

\* Longest run of modifier prefixes in front of the key text of an input.
MaxPrefixes == 3

-----------------------------------------------------------------------------
(* Characters and strings (Rust's char and str)                            *)

LowerLetters ==
  <<"a","b","c","d","e","f","g","h","i","j","k","l","m",
    "n","o","p","q","r","s","t","u","v","w","x","y","z">>

UpperLetters ==
  <<"A","B","C","D","E","F","G","H","I","J","K","L","M",
    "N","O","P","Q","R","S","T","U","V","W","X","Y","Z">>

is_ascii_lowercase(c) == \E i \in 1..Len(LowerLetters) : LowerLetters[i] = c

is_ascii_uppercase(c) == \E i \in 1..Len(UpperLetters) : UpperLetters[i] = c

\* char::len_utf8: U+0080..U+07FF take two bytes, U+0800..U+FFFF three.
len_utf8(c) ==
  IF c = "U+0D9E" THEN 3
  ELSE IF c \in {"U+00E9", "U+00C9"} THEN 2
  ELSE 1

\* Mutant of char_to_ascii_lowercase: the character keeps its case.
char_keep_case(c) == c

\* char::to_ascii_lowercase: only A-Z change.
char_to_ascii_lowercase(c) ==
  IF is_ascii_uppercase(c)
  THEN LowerLetters[CHOOSE i \in 1..Len(UpperLetters) : UpperLetters[i] = c]
  ELSE c

\* char::to_ascii_uppercase: only a-z change.
char_to_ascii_uppercase(c) ==
  IF is_ascii_lowercase(c)
  THEN UpperLetters[CHOOSE i \in 1..Len(LowerLetters) : LowerLetters[i] = c]
  ELSE c

\* str::to_ascii_lowercase
to_ascii_lowercase(s) == [i \in 1..Len(s) |-> char_to_ascii_lowercase(s[i])]

\* str::len: the length in bytes of the UTF-8 encoding.
RECURSIVE len(_)
len(s) == IF s = <<>> THEN 0 ELSE len_utf8(Head(s)) + len(Tail(s))

\* Mutant of strip_prefix: the hyphens after the prefix go with it.
strip_prefix_and_hyphens(s, p) ==
  LET rest == SubSeq(s, Len(p) + 1, Len(s))
  IN  IF rest # <<>> /\ Head(rest) = "-" THEN Tail(rest) ELSE rest

\* str::strip_prefix, split in its test and its result.
starts_with(s, p) == Len(s) >= Len(p) /\ SubSeq(s, 1, Len(p)) = p

strip_prefix(s, p) == SubSeq(s, Len(p) + 1, Len(s))

-----------------------------------------------------------------------------
(* crossterm's KeyModifiers, KeyCode and KeyEvent                          *)

CONTROL == "CONTROL"
ALT     == "ALT"
SHIFT   == "SHIFT"

Code(kind) == [kind |-> kind, n |-> 0, c |-> ""]
F(n)       == [kind |-> "F", n |-> n, c |-> ""]
Char(c)    == [kind |-> "Char", n |-> 0, c |-> c]
NoCode     == Code("none")

\* Result<KeyEvent, ParseKeyError>: Ok(KeyEvent::new(code, modifiers)) ...
Ok(code, modifiers) ==
  [ok |-> TRUE, code |-> code, modifiers |-> modifiers, raw |-> <<>>]

\* ... or Err(ParseKeyError::new(raw)), which holds no event.
ParseKeyError(raw) ==
  [ok |-> FALSE, code |-> NoCode, modifiers |-> {}, raw |-> raw]

-----------------------------------------------------------------------------
(* parse                                                                   *)

CtrlPrefix  == <<"c","t","r","l","-">>
AltPrefix   == <<"a","l","t","-">>
ShiftPrefix == <<"s","h","i","f","t","-">>

\* Mutant of StripModifiers: one pass, each prefix at most once, in the
\* order ctrl, alt, shift.
StripModifiersInOrder(raw, modifiers) ==
  LET Step(st, prefix, flag) ==
        IF Len(st.raw) >= Len(prefix) /\ SubSeq(st.raw, 1, Len(prefix)) = prefix
        THEN [raw |-> SubSeq(st.raw, Len(prefix) + 1, Len(st.raw)),
              modifiers |-> st.modifiers \cup {flag}]
        ELSE st
      s0 == [raw |-> raw, modifiers |-> modifiers]
      s1 == Step(s0, CtrlPrefix, CONTROL)
      s2 == Step(s1, AltPrefix, ALT)
  IN  Step(s2, ShiftPrefix, SHIFT)

\* The loop of parse: strip leading modifier prefixes, collecting their flags.
RECURSIVE StripModifiers(_, _)
StripModifiers(raw, modifiers) ==
  IF starts_with(raw, CtrlPrefix)
  THEN StripModifiers(strip_prefix(raw, CtrlPrefix), modifiers \cup {CONTROL})
  ELSE IF starts_with(raw, AltPrefix)
  THEN StripModifiers(strip_prefix(raw, AltPrefix), modifiers \cup {ALT})
  ELSE IF starts_with(raw, ShiftPrefix)
  THEN StripModifiers(strip_prefix(raw, ShiftPrefix), modifiers \cup {SHIFT})
  ELSE [raw |-> raw, modifiers |-> modifiers]

\* The string arms of the match: the code of a key name, NoCode for any
\* other text.
KeyName(raw) ==
  CASE raw = <<"e","s","c">> -> Code("Esc")
    [] raw = <<"e","n","t","e","r">> -> Code("Enter")
    [] raw = <<"l","e","f","t">> -> Code("Left")
    [] raw = <<"r","i","g","h","t">> -> Code("Right")
    [] raw = <<"u","p">> -> Code("Up")
    [] raw = <<"d","o","w","n">> -> Code("Down")
    [] raw = <<"h","o","m","e">> -> Code("Home")
    [] raw = <<"e","n","d">> -> Code("End")
    [] raw = <<"p","a","g","e","u","p">> -> Code("PageUp")
    [] raw = <<"p","a","g","e","d","o","w","n">> -> Code("PageDown")
    [] raw = <<"b","a","c","k","t","a","b">> -> Code("BackTab")
    [] raw = <<"b","a","c","k","s","p","a","c","e">> -> Code("Backspace")
    [] raw = <<"d","e","l">> -> Code("Delete")
    [] raw = <<"d","e","l","e","t","e">> -> Code("Delete")
    [] raw = <<"i","n","s","e","r","t">> -> Code("Insert")
    [] raw = <<"i","n","s">> -> Code("Insert")
    [] raw = <<"f","1">> -> F(1)
    [] raw = <<"f","2">> -> F(2)
    [] raw = <<"f","3">> -> F(3)
    [] raw = <<"f","4">> -> F(4)
    [] raw = <<"f","5">> -> F(5)
    [] raw = <<"f","6">> -> F(6)
    [] raw = <<"f","7">> -> F(7)
    [] raw = <<"f","8">> -> F(8)
    [] raw = <<"f","9">> -> F(9)
    [] raw = <<"f","1","0">> -> F(10)
    [] raw = <<"f","1","1">> -> F(11)
    [] raw = <<"f","1","2">> -> F(12)
    [] raw = <<"s","p","a","c","e">> -> Char(" ")
    [] raw = <<"h","y","p","h","e","n">> -> Char("-")
    [] raw = <<"m","i","n","u","s">> -> Char("-")
    [] raw = <<"t","a","b">> -> Code("Tab")
    [] OTHER -> NoCode

\* Mutant of BackTabModifiers: only the modifiers the text names.
BackTabModifiersAsWritten(modifiers) == modifiers

\* The "backtab" arm: crossterm always sends SHIFT with backtab.
BackTabModifiers(modifiers) == modifiers \cup {SHIFT}

\* Mutant of CharCode: the character is never put in upper case.
CharCodeLower(c, modifiers) == Char(c)

\* The body of the single-character arm.
CharCode(c, modifiers) ==
  IF SHIFT \in modifiers THEN Char(char_to_ascii_uppercase(c)) ELSE Char(c)

\* The guard of the single-character arm: c.len() == 1, a length in bytes.
IsSingleChar(raw) == len(raw) = 1

\* The match of parse on what the loop left, and its result.
MatchCode(raw, modifiers) ==
  LET code == KeyName(raw) IN
  IF code = Code("BackTab") THEN Ok(code, BackTabModifiers(modifiers))
  ELSE IF code # NoCode THEN Ok(code, modifiers)
  ELSE IF IsSingleChar(raw) THEN Ok(CharCode(raw[1], modifiers), modifiers)
  ELSE ParseKeyError(raw)

\* Mutant of parse: the text is not put in lower case first.
parse_as_written(raw) ==
  LET stripped == StripModifiers(raw, {})
  IN  MatchCode(stripped.raw, stripped.modifiers)

parse(raw) ==
  LET lowered  == to_ascii_lowercase(raw)
      stripped == StripModifiers(lowered, {})
  IN  MatchCode(stripped.raw, stripped.modifiers)

-----------------------------------------------------------------------------
(* KeyEventFormat: the rendering of a key event                            *)

DefaultFormat ==
  [control |-> <<"C","t","r","l","-">>, alt |-> <<"A","l","t","-">>,
   shift |-> <<"S","h","i","f","t","-">>, implicit_shift |-> FALSE]

\* Mutant of with_implicit_shift: the Shift prefix is emptied for every key.
with_implicit_shift_blank(fmt) ==
  [fmt EXCEPT !.implicit_shift = TRUE, !.shift = <<>>]

with_implicit_shift(fmt) == [fmt EXCEPT !.implicit_shift = TRUE]

with_control(fmt, s) == [fmt EXCEPT !.control = s]

\* The compact format of the crate documentation.
CompactFormat == with_control(with_implicit_shift(DefaultFormat), <<"^">>)

Formats == {DefaultFormat, CompactFormat}

is_letter(code) ==
  code.kind = "Char" /\ (is_ascii_lowercase(code.c) \/ is_ascii_uppercase(code.c))

\* The decimal digits of a function key's index (1..12).
Digit(d) == <<"0","1","2","3","4","5","6","7","8","9">>[d + 1]

Digits(n) == IF n < 10 THEN <<Digit(n)>> ELSE <<Digit(n \div 10), Digit(n % 10)>>

\* The default spelling of the key itself.
KeyLabel(code) ==
  CASE code.kind = "Char" ->
         IF code.c = " " THEN <<"S","p","a","c","e">>
         ELSE IF code.c = "-" THEN <<"H","y","p","h","e","n">>
         ELSE <<code.c>>
    [] code.kind = "F" -> <<"F">> \o Digits(code.n)
    [] code.kind = "Esc" -> <<"E","s","c">>
    [] code.kind = "Enter" -> <<"E","n","t","e","r">>
    [] code.kind = "Left" -> <<"L","e","f","t">>
    [] code.kind = "Right" -> <<"R","i","g","h","t">>
    [] code.kind = "Up" -> <<"U","p">>
    [] code.kind = "Down" -> <<"D","o","w","n">>
    [] code.kind = "Home" -> <<"H","o","m","e">>
    [] code.kind = "End" -> <<"E","n","d">>
    [] code.kind = "PageUp" -> <<"P","a","g","e","U","p">>
    [] code.kind = "PageDown" -> <<"P","a","g","e","D","o","w","n">>
    [] code.kind = "BackTab" -> <<"B","a","c","k","T","a","b">>
    [] code.kind = "Backspace" -> <<"B","a","c","k","s","p","a","c","e">>
    [] code.kind = "Delete" -> <<"D","e","l","e","t","e">>
    [] code.kind = "Insert" -> <<"I","n","s","e","r","t">>
    [] code.kind = "Tab" -> <<"T","a","b">>

\* Whether Shift is told by the letter's case instead of a prefix.
ShiftIsImplicit(fmt, event) ==
  fmt.implicit_shift /\ is_letter(event.code) /\ SHIFT \in event.modifiers

\* KeyEventFormat::to_string: Control, Alt, Shift, then the key.
to_string(fmt, event) ==
  (IF CONTROL \in event.modifiers THEN fmt.control ELSE <<>>)
  \o (IF ALT \in event.modifiers THEN fmt.alt ELSE <<>>)
  \o (IF SHIFT \in event.modifiers /\ ~ShiftIsImplicit(fmt, event)
      THEN fmt.shift ELSE <<>>)
  \o (IF ShiftIsImplicit(fmt, event)
      THEN <<char_to_ascii_uppercase(event.code.c)>>
      ELSE KeyLabel(event.code))

-----------------------------------------------------------------------------
(* The key! macro, as the assertions of tests::key state its expansion     *)

KeyTests ==
  {
    [text |-> <<"b","a","c","k","s","p","a","c","e">>,
     event |-> Ok(Code("Backspace"), {})],
    [text |-> <<"b","A","c","K","s","P","a","C","e">>,
     event |-> Ok(Code("Backspace"), {})],
    [text |-> <<"0">>,
     event |-> Ok(Char("0"), {})],
    [text |-> <<"9">>,
     event |-> Ok(Char("9"), {})],
    [text |-> <<"x">>,
     event |-> Ok(Char("x"), {})],
    [text |-> <<"X">>,
     event |-> Ok(Char("x"), {})],
    [text |-> <<"]">>,
     event |-> Ok(Char("]"), {})],
    [text |-> <<"U+0D9E">>,
     event |-> Ok(Char("U+0D9E"), {})],
    [text |-> <<"f">>,
     event |-> Ok(Char("f"), {})],
    [text |-> <<"F">>,
     event |-> Ok(Char("f"), {})],
    [text |-> <<"f","1","0">>,
     event |-> Ok(F(10), {})],
    [text |-> <<"F","1","0">>,
     event |-> Ok(F(10), {})],
    [text |-> <<"c","t","r","l","-","c">>,
     event |-> Ok(Char("c"), {CONTROL})],
    [text |-> <<"a","l","t","-","s","h","i","f","t","-","c">>,
     event |-> Ok(Char("c"), {ALT, SHIFT})] }

KeyTested == { t.text : t \in KeyTests }

\* The event key! embeds for a text of tests::key.
key(text) == (CHOOSE t \in KeyTests : t.text = text).event

-----------------------------------------------------------------------------
(* Inputs                                                                  *)

\* Modifier prefixes as a configuration file may spell them.
PrefixTokens ==
  { <<"c","t","r","l","-">>, <<"C","T","R","L","-">>,
    <<"a","l","t","-">>,
    <<"s","h","i","f","t","-">>, <<"S","h","i","f","t","-">> }

PrefixSeqs == UNION { [1..k -> PrefixTokens] : k \in 0..MaxPrefixes }

\* Every key name of the match, as written there.
NameTexts ==
  { <<"e","s","c">>, <<"e","n","t","e","r">>, <<"l","e","f","t">>,
    <<"r","i","g","h","t">>, <<"u","p">>, <<"d","o","w","n">>,
    <<"h","o","m","e">>, <<"e","n","d">>, <<"p","a","g","e","u","p">>,
    <<"p","a","g","e","d","o","w","n">>, <<"b","a","c","k","t","a","b">>,
    <<"b","a","c","k","s","p","a","c","e">>, <<"d","e","l">>,
    <<"d","e","l","e","t","e">>, <<"i","n","s","e","r","t">>,
    <<"i","n","s">>, <<"f","1">>, <<"f","2">>, <<"f","3">>, <<"f","4">>,
    <<"f","5">>, <<"f","6">>, <<"f","7">>, <<"f","8">>, <<"f","9">>,
    <<"f","1","0">>, <<"f","1","1">>, <<"f","1","2">>,
    <<"s","p","a","c","e">>, <<"h","y","p","h","e","n">>,
    <<"m","i","n","u","s">>, <<"t","a","b">> }

\* Key names in other casings (check_key_parsing, tests::key).
CasedNameTexts ==
  { <<"R","I","G","H","T">>, <<"H","o","m","e">>, <<"F","2">>,
    <<"E","n","t","e","r">>, <<"b","A","c","K","s","P","a","C","e">>,
    <<"F","1","0">>, <<"B","a","c","k","T","a","b">>,
    <<"H","y","p","h","e","n">>, <<"M","I","N","U","S">>,
    <<"S","p","a","c","e">> }

\* Single characters: letters in both cases, digits, punctuation, non-ASCII.
CharTexts ==
  { <<"q">>, <<"Q">>, <<"c">>, <<"C">>, <<"a">>, <<"A">>, <<"x">>, <<"X">>,
    <<"f">>, <<"F">>, <<"0">>, <<"9">>, <<"2">>, <<"-">>, <<" ">>, <<"]">>,
    <<"{">>, <<"?">>, <<"U+0D9E">>, <<"U+00E9">>, <<"U+00C9">> }

\* Neither: the empty text, unknown names, a modifier without its hyphen.
OtherTexts ==
  { <<>>, <<"u","n","k","n","o","w","n","k","e","y">>,
    <<"U","n","k","n","o","w","n","K","e","y">>, <<"f","1","3">>,
    <<"f","0">>, <<"c","t","r","l">>, <<"s","h","i","f","t">>, <<"q","q">>,
    <<"-","-">>, <<"q","-">>, <<"-","q">>, <<"r","e","t","u","r","n">>,
    <<"U+0D9E","U+0D9E">>, <<"c","t","r","l","q">> }

KeyTexts == NameTexts \cup CasedNameTexts \cup CharTexts \cup OtherTexts

RECURSIVE Concat(_)
Concat(ss) == IF ss = <<>> THEN <<>> ELSE Head(ss) \o Concat(Tail(ss))

-----------------------------------------------------------------------------
(* The state machine: one text is parsed, expanded by key! where           *)
(* tests::key covers it, rendered, and the rendering parsed again.         *)

VARIABLES
  prefixes,   \* the modifier prefixes of the input, in order
  keytext,    \* the text after them
  pc,         \* "ready", "parsed", "expanded", "shown", "reparsed"
  result,     \* what parse returned for the input
  embedded,   \* what key! embeds for the input
  origin,     \* where the rendered event comes from: "parse" or "key"
  format,     \* the KeyEventFormat in use
  shown,      \* the rendering of the event
  reparsed    \* what parse returned for the rendering

vars ==
  <<prefixes, keytext, pc, result, embedded, origin, format, shown, reparsed>>

\* The text handed to parse.
Input == Concat(prefixes) \o keytext

Unset == ParseKeyError(<<>>)

\* The event that is rendered.
Event == IF origin = "key" THEN embedded ELSE result

Init ==
  /\ prefixes \in PrefixSeqs
  /\ keytext \in KeyTexts
  /\ pc = "ready"
  /\ result = Unset
  /\ embedded = Unset
  /\ origin = "none"
  /\ format = DefaultFormat
  /\ shown = <<>>
  /\ reparsed = Unset

\* crokey::parse(input)
Parse ==
  /\ pc = "ready"
  /\ result' = parse(Input)
  /\ pc' = "parsed"
  /\ UNCHANGED <<prefixes, keytext, embedded, origin, format, shown, reparsed>>

\* key!(input), for the inputs tests::key expands
Key ==
  /\ pc = "parsed"
  /\ Input \in KeyTested
  /\ embedded' = key(Input)
  /\ pc' = "expanded"
  /\ UNCHANGED <<prefixes, keytext, result, origin, format, shown, reparsed>>

\* fmt.to_string(event), of the event parse returned ...
FormatParsed(fmt) ==
  /\ pc = "parsed"
  /\ result.ok
  /\ origin' = "parse"
  /\ format' = fmt
  /\ shown' = to_string(fmt, result)
  /\ pc' = "shown"
  /\ UNCHANGED <<prefixes, keytext, result, embedded, reparsed>>

\* ... or of the event key! embedded
FormatEmbedded(fmt) ==
  /\ pc = "expanded"
  /\ origin' = "key"
  /\ format' = fmt
  /\ shown' = to_string(fmt, embedded)
  /\ pc' = "shown"
  /\ UNCHANGED <<prefixes, keytext, result, embedded, reparsed>>

\* crokey::parse(shown)
Reparse ==
  /\ pc = "shown"
  /\ reparsed' = parse(shown)
  /\ pc' = "reparsed"
  /\ UNCHANGED <<prefixes, keytext, result, embedded, origin, format, shown>>

Next ==
  \/ Parse
  \/ Key
  \/ \E fmt \in Formats : FormatParsed(fmt)
  \/ \E fmt \in Formats : FormatEmbedded(fmt)
  \/ Reparse

Spec == Init /\ [][Next]_vars

-----------------------------------------------------------------------------
(* Vocabulary of the properties                                            *)

\* The modifier a prefix token names, whatever its case.
ModifierOf(token) ==
  LET t == to_ascii_lowercase(token)
  IN  CASE t = CtrlPrefix -> CONTROL
        [] t = AltPrefix -> ALT
        [] t = ShiftPrefix -> SHIFT

\* The set of modifiers a sequence of prefix tokens names.
Named(ps) == { ModifierOf(ps[i]) : i \in 1..Len(ps) }

\* One sequence of prefixes for each set of modifiers.
Canonical(mods) ==
  (IF CONTROL \in mods THEN CtrlPrefix ELSE <<>>)
  \o (IF ALT \in mods THEN AltPrefix ELSE <<>>)
  \o (IF SHIFT \in mods THEN ShiftPrefix ELSE <<>>)

Reverse(s) == [i \in 1..Len(s) |-> s[Len(s) + 1 - i]]

\* Both fail, or both succeed with equal events.
SameOutcome(a, b) ==
  /\ a.ok = b.ok
  /\ a.ok => a.code = b.code /\ a.modifiers = b.modifiers

\* The other case of an ASCII letter; any other character as it is.
SwapCase(c) ==
  IF is_ascii_uppercase(c)
  THEN LowerLetters[CHOOSE k \in 1..Len(UpperLetters) : UpperLetters[k] = c]
  ELSE IF is_ascii_lowercase(c)
  THEN UpperLetters[CHOOSE k \in 1..Len(LowerLetters) : LowerLetters[k] = c]
  ELSE c

\* The texts that differ from s in case: all lower, all upper, one flipped.
CaseVariants(s) ==
  { [i \in 1..Len(s) |-> IF is_ascii_uppercase(s[i]) THEN SwapCase(s[i]) ELSE s[i]],
    [i \in 1..Len(s) |-> IF is_ascii_lowercase(s[i]) THEN SwapCase(s[i]) ELSE s[i]] }
  \cup { [s EXCEPT ![i] = SwapCase(s[i])] : i \in 1..Len(s) }

\* The lowercased text after the modifier prefixes: no key text of the
\* inputs starts with a modifier prefix.
Remainder == to_ascii_lowercase(keytext)

\* Whether a lowercased text is a name of the special-name table.
IsName(t) == t \in NameTexts

Hyphen == <<"-">>
HyphenName == <<"h","y","p","h","e","n">>
MinusName == <<"m","i","n","u","s">>
BackTabName == <<"b","a","c","k","t","a","b">>

-----------------------------------------------------------------------------
(* Properties                                                              *)

\* C1: an event parse returned, rendered with the default format and parsed
\* again, comes back: the second parse succeeds with the same key code and
\* the same modifier set.
RoundTrip ==
  pc = "reparsed" /\ origin = "parse" /\ format = DefaultFormat
    => /\ reparsed.ok
       /\ reparsed.code = result.code
       /\ reparsed.modifiers = result.modifiers

RoundTripWitness ==
  /\ pc = "reparsed" /\ origin = "parse" /\ format = DefaultFormat
  /\ result = Ok(Char("Q"), {CONTROL, SHIFT})
  /\ shown = <<"C","t","r","l","-","S","h","i","f","t","-","Q">>

\* C2: parse gives the same outcome for every text that differs from the
\* input only in the ASCII case of its letters (all lower, all upper, any
\* one letter flipped): both fail, or both succeed with equal events.
CaseInsensitive ==
  pc = "parsed" => \A t \in CaseVariants(Input) : SameOutcome(parse(t), result)

CaseInsensitiveWitness ==
  /\ pc = "parsed"
  /\ prefixes = << <<"C","T","R","L","-">>, <<"S","h","i","f","t","-">> >>
  /\ keytext = <<"E","n","t","e","r">>
  /\ result = Ok(Code("Enter"), {CONTROL, SHIFT})

\* C3: the result depends only on the set of modifiers the prefixes name:
\* the prefixes once each in a fixed order, the prefixes reversed and the
\* prefixes repeated give the result of the input, and on success the
\* modifier set is the named set, plus Shift for backtab.
ModifierSetOnly ==
  pc = "parsed"
    => /\ parse(Canonical(Named(prefixes)) \o keytext) = result
       /\ parse(Concat(Reverse(prefixes)) \o keytext) = result
       /\ parse(Concat(prefixes \o prefixes) \o keytext) = result
       /\ result.ok =>
            result.modifiers =
              Named(prefixes) \cup (IF Remainder = BackTabName THEN {SHIFT} ELSE {})

ModifierSetOnlyWitness ==
  /\ pc = "parsed"
  /\ prefixes = << ShiftPrefix, AltPrefix, ShiftPrefix >>
  /\ keytext = <<"f","1","0">>
  /\ result = Ok(F(10), {ALT, SHIFT})

\* C4: a Char parsed from a single character is that character in upper
\* case when Shift is among the modifiers and in lower case when it is not,
\* whatever the case of the input; no Char without Shift is an upper-case
\* ASCII letter.
ShiftCasing ==
  pc = "parsed" /\ result.ok /\ result.code.kind = "Char"
    => /\ Len(keytext) = 1 =>
            result.code.c =
              IF SHIFT \in result.modifiers
              THEN char_to_ascii_uppercase(Remainder[1])
              ELSE Remainder[1]
       /\ SHIFT \notin result.modifiers => ~is_ascii_uppercase(result.code.c)

ShiftCasingWitness ==
  /\ pc = "parsed"
  /\ prefixes = << ShiftPrefix >>
  /\ keytext = <<"q">>
  /\ result = Ok(Char("Q"), {SHIFT})

\* C5: every parsed BackTab has Shift; "backtab" behind any prefixes gives
\* BackTab with the named modifiers and Shift, and a "shift-" in front of it
\* changes nothing.
BackTabImpliesShift ==
  pc = "parsed"
    => /\ result.ok /\ result.code = Code("BackTab") => SHIFT \in result.modifiers
       /\ Remainder = BackTabName =>
            /\ result = Ok(Code("BackTab"), Named(prefixes) \cup {SHIFT})
            /\ parse(ShiftPrefix \o Input) = parse(Input)
            /\ parse(ShiftPrefix \o keytext) = Ok(Code("BackTab"), {SHIFT})
            /\ parse(keytext) = Ok(Code("BackTab"), {SHIFT})

BackTabImpliesShiftWitness ==
  /\ pc = "parsed"
  /\ prefixes = << CtrlPrefix >>
  /\ keytext = BackTabName
  /\ result = Ok(Code("BackTab"), {CONTROL, SHIFT})

\* C6: parse fails exactly when the lowercased text after the modifier
\* prefixes is neither a name of the table nor a single character, and the
\* error then carries that text.
UnknownTokenFailure ==
  pc = "parsed"
    => /\ ~result.ok <=> (~IsName(Remainder) /\ Len(Remainder) # 1)
       /\ ~result.ok => result = ParseKeyError(Remainder)

\* C7: "-", "hyphen" and "minus" behind the same prefixes all parse to
\* Char('-') with exactly the modifiers the prefixes name.
HyphenEquivalence ==
  pc = "parsed" /\ Remainder \in {Hyphen, HyphenName, MinusName}
    => /\ result = Ok(Char("-"), Named(prefixes))
       /\ parse(Concat(prefixes) \o Hyphen) = result
       /\ parse(Concat(prefixes) \o HyphenName) = result
       /\ parse(Concat(prefixes) \o MinusName) = result

HyphenEquivalenceWitness ==
  /\ pc = "parsed"
  /\ prefixes = << CtrlPrefix, ShiftPrefix, AltPrefix >>
  /\ keytext = Hyphen
  /\ result = Ok(Char("-"), {CONTROL, ALT, SHIFT})

\* C8: with the compact format (implicit shift, control "^") a letter with
\* Shift renders as the upper-case letter without a Shift prefix, a letter
\* without Shift renders unchanged, any other key with Shift keeps the
\* Shift prefix; the prefixes come in the order Control, Alt, Shift and the
\* key comes last.
ImplicitShift ==
  pc = "shown" /\ format = CompactFormat
    => LET e == Event
           lead == (IF CONTROL \in e.modifiers THEN <<"^">> ELSE <<>>)
                   \o (IF ALT \in e.modifiers THEN <<"A","l","t","-">> ELSE <<>>)
       IN  /\ is_letter(e.code) /\ SHIFT \in e.modifiers
                => shown = lead \o <<char_to_ascii_uppercase(e.code.c)>>
           /\ is_letter(e.code) /\ SHIFT \notin e.modifiers
                => shown = lead \o <<e.code.c>>
           /\ ~is_letter(e.code) /\ SHIFT \in e.modifiers
                => shown = lead \o <<"S","h","i","f","t","-">> \o KeyLabel(e.code)
           /\ ~is_letter(e.code) /\ SHIFT \notin e.modifiers
                => shown = lead \o KeyLabel(e.code)

ImplicitShiftWitness ==
  /\ pc = "shown" /\ format = CompactFormat
  /\ prefixes = << ShiftPrefix >>
  /\ keytext = <<"a">>
  /\ shown = <<"A">>

\* C9: the event key! embeds for a text is the event parse returns for it,
\* and parse rejects no text key! accepts.
MacroAgreesWithParse ==
  pc = "expanded" => result.ok /\ SameOutcome(embedded, result)

\* C10: a text after the prefixes that is no name of the table and is one
\* character long parses to Char of that character, in upper case under
\* Shift, with the named modifiers; parse fails only for an empty text or
\* an unknown one of two or more characters.
SingleCharacterLiteral ==
  pc = "parsed"
    => /\ ~IsName(Remainder) /\ Len(Remainder) = 1 =>
            result = Ok(Char(IF SHIFT \in Named(prefixes)
                             THEN char_to_ascii_uppercase(Remainder[1])
                             ELSE Remainder[1]),
                        Named(prefixes))
       /\ ~result.ok => ~IsName(Remainder) /\ Len(Remainder) # 1

====
